---- MODULE Spec2Model ----
(***************************************************************************)
(* A model of the scoring engine (CryptoProjectAnalyzer.analyze_project    *)
(* and its six sub-analyzers, src/crypto_analyzer.py) and of the           *)
(* intelligence supervisor (DarkWebCryptoMonitor.start_monitoring and its  *)
(* six polling loops, src/dark_web_monitor.py).                            *)
(*                                                                         *)
(* Scores are floats in the source; here they are integers scaled by 100   *)
(* (0.05 is 5, 0.7 is 70).  Texts are sequences of phrases of a small      *)
(* vocabulary; a phrase carries its length in characters and the keywords  *)
(* that occur in it as substrings (after lower-casing), so that the        *)
(* source's substring and regex tests are computed, not assumed.           *)
(***************************************************************************)
EXTENDS Integers, Sequences, FiniteSets, TLC

VARIABLES
    config,          \* CryptoProjectAnalyzer.config
    phase,           \* position of analyze_project: idle, gathering, returned
    project_data,    \* the argument of the analyze_project call in progress
    polarity,        \* mean TextBlob polarity of the mentions (x100), external
    status,          \* per gathered task: pending, ok, exc, hung
    out_of_order,    \* a task finished while an earlier one of the list had not
    analysis,        \* the dict analyze_project builds and returns
    mconfig,         \* DarkWebCryptoMonitor.config
    transport,       \* what the scan functions read: "simulated" or "live"
    faulty,          \* the sources whose transport and alert operation can raise
    tasks,           \* the sources whose loop coroutine was started
    pc,              \* per source: position of its polling loop
    batch,           \* per source: the list the fetch returned
    idx,             \* per source: position of the for loop in the batch
    calls,           \* per source: observations handed to the alert operation
                     \* since the last fetch, in call order
    last_sleep,      \* per source: seconds of the asyncio.sleep in progress
    fetch_failed,    \* per source: the transport of the last fetch raised
    cancelled,       \* start_monitoring was cancelled
    arg,             \* the arguments of a direct call of a scoring function
    ret              \* what that call returned: <<>> before, <<value>> after

avars == <<config, phase, project_data, polarity, status, out_of_order, analysis>>
mvars == <<mconfig, transport, faulty, tasks, pc, batch, idx, calls, last_sleep,
           fetch_failed, cancelled>>
vars == <<config, phase, project_data, polarity, status, out_of_order, analysis,
          mconfig, transport, faulty, tasks, pc, batch, idx, calls, last_sleep,
          fetch_failed, cancelled, arg, ret>>
fvars == <<arg, ret>>

(***************************************************************************)
(* Texts.                                                                  *)
(***************************************************************************)

\* Characters of a phrase (len() of the Python string); given for the phrases
\* of project names and descriptions, the only texts whose length is read.
PhraseLen(p) ==
    CASE p = "Safe" -> 4
      [] p = "Moon" -> 4
      [] p = "X" -> 1
      [] p = "9999" -> 4
      [] p = "Decentra" -> 8
      [] p = "Fi" -> 2
      [] p = "guaranteed profit" -> 17
      [] p = ", " -> 2
      [] p = "no risk" -> 7
      [] p = "audit " -> 6
      [] p = "roadmap " -> 8
      [] p = "web3 " -> 5
      [] p = "layer 2 " -> 8
      [] p = "a protocol" -> 10
      [] p = "whitepaper team github community security " -> 42
      [] p = "stablecoin metaverse interoperability cross-chain " -> 50
      [] p = "." -> 1
      [] p = " " -> 1
      [] OTHER -> 0

\* The keywords (and the halves of the regexes a.*b) that occur in the
\* lower-cased phrase as substrings.  "#digits4" stands for \d{4,},
\* "#word" for \w+ .
AtomTable ==
       "Safe" :> {"safe", "#word"}
    @@ "Moon" :> {"moon", "#word"}
    @@ "X" :> {"#word"}
    @@ "9999" :> {"#digits4", "#word"}
    @@ "Decentra" :> {"#word"}
    @@ "Fi" :> {"#word"}
    @@ "guaranteed profit" :> {"guaranteed", "profit", "#word"}
    @@ "no risk" :> {"no risk", "no", "risk", "#word"}
    @@ "audit " :> {"audit", "#word"}
    @@ "roadmap " :> {"roadmap", "#word"}
    @@ "web3 " :> {"web3", "#word"}
    @@ "layer 2 " :> {"layer 2", "#word"}
    @@ "a protocol" :> {"#word"}
    @@ "whitepaper team github community security " :>
           {"whitepaper", "team", "github", "community", "security", "#word"}
    @@ "stablecoin metaverse interoperability cross-chain " :>
           {"stablecoin", "metaverse", "interoperability", "cross-chain", "#word"}
    \* phrases of forum posts, messages, listings and handles
    @@ "WARNING: " :> {"warning"}
    @@ "Avoid " :> {"avoid"}
    @@ "Rug Pull " :> {"rug pull", "rug"}
    @@ "scam token " :> {"scam token", "scam"}
    @@ "suspicious " :> {"suspicious"}
    @@ "scam " :> {"scam"}
    @@ "Presale " :> {"presale"}
    @@ "Listing " :> {"listing"}
    @@ "Alpha " :> {"alpha"}
    @@ "whale movements " :> {"whale movements", "whale"}
    @@ "URGENT: " :> {"urgent"}
    @@ "Whale Alert: " :> {"whale", "alert"}
    @@ "dump " :> {"dump"}
    @@ "insider" :> {"insider"}
    @@ "Private Keys " :> {"private key"}
    @@ "wallets " :> {"wallet"}
    @@ "Exchange " :> {"exchange"}
    @@ "passports " :> {}
    @@ "None" :> {"no", "#word"}

Atoms(p) == IF p \in DOMAIN AtomTable THEN AtomTable[p] ELSE {}

\* The regexes a.*b that match inside the single phrase p.
InnerMatches(p) ==
    CASE p = "guaranteed profit" -> {<<"guaranteed", "profit">>}
      [] p = "no risk" -> {<<"no", "risk">>}
      [] OTHER -> {}

RECURSIVE TextLen(_)
\* len(text)
TextLen(t) == IF t = <<>> THEN 0 ELSE PhraseLen(Head(t)) + TextLen(Tail(t))

\* keyword in text
Contains(t, kw) == \E i \in 1..Len(t) : kw \in Atoms(t[i])

\* re.search(r'a.*b', text)
Search(t, a, b) ==
    \/ \E i \in 1..Len(t) : <<a, b>> \in InnerMatches(t[i])
    \/ \E i, j \in 1..Len(t) : i < j /\ a \in Atoms(t[i]) /\ b \in Atoms(t[j])

\* f"{project_data.get('description', '')} {project_data.get('name', '')}".lower()
Content(p) == p.description \o <<" ">> \o p.name

(***************************************************************************)
(* CryptoProjectAnalyzer: keyword lists and configuration.                 *)
(***************************************************************************)

risk_indicators ==
    {"pump", "dump", "scam", "rug pull", "ponzi", "pyramid",
     "get rich quick", "guaranteed returns", "no risk", "easy money",
     "instant profit", "millionaire", "moon", "to the moon",
     "lambo", "100x", "1000x", "safe investment"}

legitimacy_indicators ==
    {"audit", "whitepaper", "roadmap", "team", "github",
     "open source", "partnership", "regulation", "compliance",
     "transparency", "security", "development", "community"}

trending_sectors_2025 ==
    {"ai crypto", "artificial intelligence", "tokenized assets",
     "stablecoin", "defi 2.0", "layer 2", "cross-chain",
     "interoperability", "web3", "metaverse", "nft utility",
     "gaming crypto", "social tokens", "dao governance"}

\* load_default_config (weights x100)
load_default_config ==
    [sentiment_weight |-> 30, risk_weight |-> 40, legitimacy_weight |-> 30,
     min_description_length |-> 50, max_risk_score |-> 10,
     github_min_stars |-> 5]

\* a clamp that lets every value through
Unclamped(a, b) == b

Min(a, b) == IF a < b THEN a ELSE b
Max(a, b) == IF a > b THEN a ELSE b

\* project_data.get('social_media') of a project without the key
NoSocial ==
    [present |-> FALSE, twitter_followers |-> 0, telegram_members |-> 0,
     discord_members |-> 0]

(***************************************************************************)
(* The six sub-analyzers.  A project is a record; an absent key is the     *)
(* falsy value of its type (<<>>, 0, FALSE, created_age -1).  The field    *)
(* mistyped lists the keys whose value has another type than the code      *)
(* reads: 'market_cap' and 'price_change_24h' hold a non-empty string,     *)
(* 'name' holds None.                                                      *)
(***************************************************************************)

\* whether sub-analyzer i of the tasks list raises on project p:
\* analyze_legitimacy compares market_cap with 100000, analyze_risk passes
\* the name to re.search, analyze_trending_potential compares
\* price_change_24h with 10; the other three catch what they raise
Raises(i, p) ==
    CASE i = 1 -> "market_cap" \in p.mistyped
      [] i = 2 -> "name" \in p.mistyped
      [] i = 6 -> "price_change_24h" \in p.mistyped
      [] OTHER -> FALSE

\* whether sub-analyzer i raises KeyError on an option the config lacks:
\* analyze_legitimacy reads self.config['min_description_length'] when the
\* description is non-empty and self.config['github_min_stars'] when the
\* source is 'github'; no other sub-analyzer reads the config
KeyErrors(i, p, cfg) ==
    /\ i = 1
    /\ \/ p.description # <<>> /\ "min_description_length" \notin DOMAIN cfg
       \/ p.source = "github" /\ "github_min_stars" \notin DOMAIN cfg

\* task i of the tasks list ends with an exception
TaskRaises(i, p, cfg) == Raises(i, p) \/ KeyErrors(i, p, cfg)

\* analyze_legitimacy with the description length compared with >=
InclusiveLength(p, cfg) ==
    LET base == 50
        kw == 5 * Cardinality({k \in legitimacy_indicators : Contains(Content(p), k)})
        len == IF p.description # <<>>
                  /\ TextLen(p.description) >= cfg.min_description_length
               THEN 10 ELSE 0
        src == IF p.source \in {"coinmarketcap", "coingecko"} THEN 20
               ELSE IF p.source = "github" /\ p.stars > cfg.github_min_stars
                    THEN 15 ELSE 0
        cap == IF p.market_cap > 100000 THEN 10 ELSE 0
        vol == IF p.volume_24h > 10000 THEN 5 ELSE 0
        web == IF p.website THEN 10 ELSE 0
        soc == IF p.social_media.present THEN 5 ELSE 0
    IN Min(100, Max(0, base + kw + len + src + cap + vol + web + soc))

\* analyze_legitimacy (x100)
analyze_legitimacy(p, cfg) ==
    LET base == 50
        kw == 5 * Cardinality({k \in legitimacy_indicators : Contains(Content(p), k)})
        len == IF p.description # <<>>
                  /\ TextLen(p.description) > cfg.min_description_length
               THEN 10 ELSE 0
        src == IF p.source \in {"coinmarketcap", "coingecko"} THEN 20
               ELSE IF p.source = "github" /\ p.stars > cfg.github_min_stars
                    THEN 15 ELSE 0
        cap == IF p.market_cap > 100000 THEN 10 ELSE 0
        vol == IF p.volume_24h > 10000 THEN 5 ELSE 0
        web == IF p.website THEN 10 ELSE 0
        soc == IF p.social_media.present THEN 5 ELSE 0
    IN Min(100, Max(0, base + kw + len + src + cap + vol + web + soc))

\* a risk_score that counts the risk indicators only
KeywordPointsOnly(p) ==
    2 * Cardinality({k \in risk_indicators : Contains(Content(p), k)})

\* the integer risk_score of analyze_risk before classification
risk_points(p) ==
    LET kw == 2 * Cardinality({k \in risk_indicators : Contains(Content(p), k)})
        age == IF p.created_age >= 0 /\ p.created_age < 7 THEN 2 ELSE 0
        team == IF ~p.team_info /\ ~p.github THEN 2 ELSE 0
        info == IF p.description = <<>> \/ TextLen(p.description) < 30
                THEN 2 ELSE 0
        nm == IF \/ Contains(p.name, "#digits4")
                 \/ Contains(p.name, "safe")
                 \/ Contains(p.name, "moon")
              THEN 1 ELSE 0
    IN kw + age + team + info + nm

\* analyze_risk
analyze_risk(p) ==
    IF risk_points(p) >= 6 THEN "high"
    ELSE IF risk_points(p) >= 3 THEN "medium"
    ELSE "low"

\* analyze_sentiment: the mean polarity of the mentions (x100); no mentions,
\* or an error inside its own try block, give 0.0
analyze_sentiment(pol) == IF pol.error \/ ~pol.mentions THEN 0 ELSE pol.mean

\* analyze_social_metrics (engagement_rate is drawn at random in the source
\* when there are followers; here only whether it was set)
analyze_social_metrics(p) ==
    LET s == p.social_media
        total == s.twitter_followers + s.telegram_members + s.discord_members
    IN [keys |-> TRUE,
        twitter_followers |-> s.twitter_followers,
        telegram_members |-> s.telegram_members,
        discord_members |-> s.discord_members,
        github_stars |-> IF p.github THEN p.stars ELSE 0,
        engagement_set |-> total > 0]

\* analysis['social_metrics'] = {} of the initial dict
EmptyMetrics ==
    [keys |-> FALSE, twitter_followers |-> 0, telegram_members |-> 0,
     discord_members |-> 0, github_stars |-> 0, engagement_set |-> FALSE]

\* analyze_technical_indicators (the real-valued volatility and the moving
\* averages are left out; has_ma7 and has_ma30 say whether the keys are set)
analyze_technical_indicators(p) ==
    LET h == p.price_history
        n == Len(h)
        trend == IF n > 1 /\ h[n] > h[1] THEN "bullish"
                 ELSE IF n > 1 /\ h[n] < h[1] THEN "bearish"
                 ELSE "neutral"
        \* market_cap > 0 raises on a string and the except branch returns
        \* the indicators as they are
        vt == IF p.volume_24h # 0 /\ "market_cap" \notin p.mistyped
                 /\ p.market_cap > 0
              THEN IF 10 * p.volume_24h > p.market_cap THEN "high"
                   ELSE IF 100 * p.volume_24h < p.market_cap THEN "low"
                   ELSE "neutral"
              ELSE "neutral"
    IN [keys |-> TRUE, price_trend |-> trend, volume_trend |-> vt,
        has_ma7 |-> n >= 7, has_ma30 |-> n >= 30]

\* analysis['technical_analysis'] = {} of the initial dict
EmptyTechnical ==
    [keys |-> FALSE, price_trend |-> "neutral", volume_trend |-> "neutral",
     has_ma7 |-> FALSE, has_ma30 |-> FALSE]

\* analyze_trending_potential (x100)
analyze_trending_potential(p) ==
    LET kw == 15 * Cardinality({k \in trending_sectors_2025 : Contains(Content(p), k)})
        age == IF p.created_age >= 0 /\ p.created_age < 30 THEN 20
               ELSE IF p.created_age >= 0 /\ p.created_age < 90 THEN 10
               ELSE 0
        soc == IF p.social_media.present THEN 10 ELSE 0
        gh == IF p.github /\ p.stars > 20 THEN 15 ELSE 0
        mom == IF p.price_change_24h > 10 THEN 20
               ELSE IF p.price_change_24h > 5 THEN 10
               ELSE 0
    IN Min(100, kw + age + soc + gh + mom)

\* the scam_patterns of detect_suspicious_patterns, as pairs a.*b
scam_patterns ==
    {<<"guaranteed", "profit">>, <<"risk", "free">>, <<"#digits1x", "guaranteed">>,
     <<"get rich", "quick">>, <<"no", "risk">>, <<"safe", "moon">>,
     <<"baby", "#word">>, <<"elon", "#word">>}

\* detect_suspicious_patterns raises: None has no lower()
DetectRaises(p) == "name" \in p.mistyped

\* detect_suspicious_patterns: the flags, in the order the source appends them
\* (total_supply is in units of 10^12 tokens, so 1e15 is 1000)
detect_suspicious_patterns(p) ==
    LET f1 == IF \E r \in scam_patterns : Search(Content(p), r[1], r[2])
              THEN <<"suspicious_keywords">> ELSE <<>>
        f2 == IF ~p.team_info /\ ~p.github THEN <<"anonymous_team">> ELSE <<>>
        f3 == IF p.description = <<>> \/ TextLen(p.description) < 50
              THEN <<"minimal_information">> ELSE <<>>
        f4 == IF p.total_supply # 0 /\ p.total_supply > 1000
              THEN <<"suspicious_tokenomics">> ELSE <<>>
        f5 == IF \E w \in {"safe", "moon", "baby", "mini", "doge"} : Contains(p.name, w)
              THEN <<"potential_clone">> ELSE <<>>
        f6 == IF ~p.website /\ ~p.social_media.present
              THEN <<"no_web_presence">> ELSE <<>>
    IN f1 \o f2 \o f3 \o f4 \o f5 \o f6

\* the rules of generate_recommendation with the 'research' rule tried
\* before the 'avoid' rule
ResearchFirst(a) ==
    IF a.legitimacy_score >= 70 /\ a.sentiment_score >= 50
       /\ a.trending_score >= 60 THEN "research"
    ELSE IF a.risk_level = "high" \/ Len(a.flags) >= 3 THEN "avoid"
    ELSE IF a.legitimacy_score >= 50 /\ a.risk_level = "low"
            /\ a.sentiment_score >= 30 THEN "monitor"
    ELSE IF a.legitimacy_score >= 40 /\ a.risk_level # "high" THEN "watch"
    ELSE "hold"

\* generate_recommendation
generate_recommendation(a) ==
    IF a.risk_level = "high" \/ Len(a.flags) >= 3 THEN "avoid"
    ELSE IF a.legitimacy_score >= 70 /\ a.sentiment_score >= 50
            /\ a.trending_score >= 60 THEN "research"
    ELSE IF a.legitimacy_score >= 50 /\ a.risk_level = "low"
            /\ a.sentiment_score >= 30 THEN "monitor"
    ELSE IF a.legitimacy_score >= 40 /\ a.risk_level # "high" THEN "watch"
    ELSE "hold"

\* calculate_composite_score, scaled by 100000 (scores x100, weights x100,
\* risk_modifier x10; the penalty of 0.1 per flag is 10000)
calculate_composite_score(a, cfg) ==
    LET risk_modifier == IF a.risk_level = "high" THEN 3
                         ELSE IF a.risk_level = "medium" THEN 7
                         ELSE 10
        composite == ( a.legitimacy_score * cfg.legitimacy_weight
                       + Max(0, a.sentiment_score) * cfg.sentiment_weight
                       + a.trending_score * 20 ) * risk_modifier
        flags_penalty == Len(a.flags) * 10000
    IN Min(100000, Max(0, composite - flags_penalty))

(***************************************************************************)
(* analyze_project: the six coroutines are gathered and complete, raise or *)
(* (the one that awaits a lookup) stay suspended, in any order.            *)
(***************************************************************************)

Analyzers == 1..6     \* positions in the tasks list of analyze_project

\* an initial dict that assumes the worst risk level
PessimisticAnalysis ==
    [legitimacy_score |-> 0, risk_level |-> "high", sentiment_score |-> 0,
     social_metrics |-> EmptyMetrics, technical_analysis |-> EmptyTechnical,
     recommendation |-> "hold", flags |-> <<>>, trending_score |-> 0]

\* the analysis dict as initialised at the top of analyze_project
InitialAnalysis ==
    [legitimacy_score |-> 0, risk_level |-> "unknown", sentiment_score |-> 0,
     social_metrics |-> EmptyMetrics, technical_analysis |-> EmptyTechnical,
     recommendation |-> "hold", flags |-> <<>>, trending_score |-> 0]

\* asyncio.gather(*tasks), the default: the first exception is raised at the
\* await
raise_first_exception == FALSE

\* asyncio.gather(*tasks, return_exceptions=True)
return_exceptions == TRUE

\* asyncio.wait(tasks, return_when=FIRST_COMPLETED): the await resumes when
\* one task has finished
GatherFirstCompleted(st) == \E i \in Analyzers : st[i] \in {"ok", "exc"}
\* the await of asyncio.gather resumes when every task has finished
GatherDone(st) == \A i \in Analyzers : st[i] \in {"ok", "exc"}

\* "Process results" on the dict a0: results[i] is stored unless it is an
\* exception
ProcessResultsInto(a0, p, cfg, pol, st) ==
    [a0 EXCEPT
       !.legitimacy_score = IF st[1] = "ok" THEN analyze_legitimacy(p, cfg) ELSE @,
       !.risk_level = IF st[2] = "ok" THEN analyze_risk(p) ELSE @,
       !.sentiment_score = IF st[3] = "ok" THEN analyze_sentiment(pol) ELSE @,
       !.social_metrics = IF st[4] = "ok" THEN analyze_social_metrics(p) ELSE @,
       !.technical_analysis =
           IF st[5] = "ok" THEN analyze_technical_indicators(p) ELSE @,
       !.trending_score = IF st[6] = "ok" THEN analyze_trending_potential(p) ELSE @]

\* "Process results" on the dict of the call
ProcessResults(p, cfg, pol, st) == ProcessResultsInto(InitialAnalysis, p, cfg, pol, st)

\* the try block of analyze_project after the gather, and its except branch,
\* on the dict a0
BuildAnalysisFrom(a0, p, cfg, pol, st) ==
    IF ~return_exceptions /\ \E i \in Analyzers : st[i] = "exc"
    THEN [a0 EXCEPT !.flags = Append(@, "analysis_error")]
    ELSE LET a1 == ProcessResultsInto(a0, p, cfg, pol, st)
             a2 == [a1 EXCEPT !.recommendation = generate_recommendation(a1)]
         IN IF DetectRaises(p)
            THEN [a2 EXCEPT !.flags = Append(@, "analysis_error")]
            ELSE [a2 EXCEPT !.flags = detect_suspicious_patterns(p)]

\* the try block of analyze_project on the dict of the call
BuildAnalysis(p, cfg, pol, st) == BuildAnalysisFrom(InitialAnalysis, p, cfg, pol, st)

\* The projects and lookups the calls are made with.
Names == {<<"Decentra", "Fi">>, <<"Safe", "Moon", "X", "9999">>}

Descriptions ==
    {<<>>,
     <<"guaranteed profit", ", ", "no risk">>,
     <<"a protocol", "a protocol", "a protocol", "a protocol">>,
     <<"a protocol", "audit ", "roadmap ", "web3 ", "layer 2 ",
       "a protocol", "a protocol", "a protocol">>}

\* nothing but name, description and source set
BareProfile ==
    [source |-> "unknown", stars |-> 0, github |-> FALSE, team_info |-> FALSE,
     market_cap |-> 0, volume_24h |-> 0, website |-> FALSE,
     social_media |-> NoSocial, created_age |-> -1, total_supply |-> 0,
     price_change_24h |-> 0, price_history |-> <<>>]

\* a listed project, as the test project of test_analyzer
ListedProfile ==
    [source |-> "coingecko", stars |-> 45, github |-> TRUE, team_info |-> FALSE,
     market_cap |-> 5000000, volume_24h |-> 250000, website |-> TRUE,
     social_media |-> [present |-> TRUE, twitter_followers |-> 15000,
                       telegram_members |-> 8000, discord_members |-> 0],
     created_age |-> 400, total_supply |-> 0,
     price_change_24h |-> 12, price_history |-> <<50, 52>>]

\* a days-old repository found on the code host, with a huge supply
RepoProfile ==
    [source |-> "github", stars |-> 45, github |-> TRUE, team_info |-> FALSE,
     market_cap |-> 0, volume_24h |-> 0, website |-> FALSE,
     social_media |-> NoSocial, created_age |-> 3, total_supply |-> 2000,
     price_change_24h |-> 6, price_history |-> <<>>]

Profiles == {BareProfile, ListedProfile, RepoProfile}

\* the keys of wrong type a project record comes with
Mistypings ==
    {{}, {"market_cap"}, {"price_change_24h"}, {"name"},
     {"market_cap", "price_change_24h"}}

\* str(None) in the f-string of the content
NoneName == <<"None">>

Project(n, d, f, m) ==
    [name |-> IF "name" \in m THEN NoneName ELSE n, mistyped |-> m, description |-> d, source |-> f.source, stars |-> f.stars,
     github |-> f.github, team_info |-> f.team_info, market_cap |-> f.market_cap,
     volume_24h |-> f.volume_24h, website |-> f.website,
     social_media |-> f.social_media, created_age |-> f.created_age,
     total_supply |-> f.total_supply, price_change_24h |-> f.price_change_24h,
     price_history |-> f.price_history]

Projects ==
    {Project(n, d, f, m) :
        n \in Names, d \in Descriptions, f \in Profiles, m \in Mistypings}

\* what get_social_media_mentions and TextBlob give
Polarities ==
    {[error |-> FALSE, mentions |-> TRUE, mean |-> 60],
     [error |-> FALSE, mentions |-> TRUE, mean |-> -20]}

NoPolarity == [error |-> FALSE, mentions |-> FALSE, mean |-> 0]

Configs == {load_default_config}

\* analyze_project is called: the dict is initialised and the tasks created
Call(p, pol) ==
    /\ phase \in {"idle", "returned"}
    /\ phase' = "gathering"
    /\ project_data' = p
    /\ polarity' = pol
    /\ status' = [i \in Analyzers |-> "pending"]
    /\ out_of_order' = FALSE
    /\ analysis' = InitialAnalysis
    /\ UNCHANGED <<config, mvars, fvars>>

\* task i returns its value
Complete(i) ==
    /\ phase = "gathering"
    /\ status[i] = "pending"
    /\ ~TaskRaises(i, project_data, config)
    /\ status' = [status EXCEPT ![i] = "ok"]
    /\ out_of_order' = (out_of_order \/ \E j \in 1..(i - 1) : status[j] \in {"pending", "hung"})
    /\ UNCHANGED <<config, phase, project_data, polarity, analysis, mvars, fvars>>

\* task i raises an exception
Raise(i) ==
    /\ phase = "gathering"
    /\ status[i] = "pending"
    /\ TaskRaises(i, project_data, config)
    /\ status' = [status EXCEPT ![i] = "exc"]
    /\ out_of_order' = (out_of_order \/ \E j \in 1..(i - 1) : status[j] \in {"pending", "hung"})
    /\ UNCHANGED <<config, phase, project_data, polarity, analysis, mvars, fvars>>

\* analyze_sentiment stays suspended in its await of the mentions lookup
Hang ==
    /\ phase = "gathering"
    /\ status[3] = "pending"
    /\ status' = [status EXCEPT ![3] = "hung"]
    /\ UNCHANGED <<config, phase, project_data, polarity, out_of_order, analysis, mvars, fvars>>

\* an analyze_project that pops the description off the record it was given
ReturnPoppingDescription ==
    /\ phase = "gathering"
    /\ GatherDone(status)
    /\ analysis' = BuildAnalysis(project_data, config, polarity, status)
    /\ phase' = "returned"
    /\ project_data' = [project_data EXCEPT !.description = <<>>]
    /\ UNCHANGED <<config, polarity, status, out_of_order, mvars, fvars>>

\* the gather resumes, the results are processed and the dict is returned
Return ==
    /\ phase = "gathering"
    /\ GatherDone(status)
    /\ analysis' = BuildAnalysis(project_data, config, polarity, status)
    /\ phase' = "returned"
    /\ UNCHANGED <<config, project_data, polarity, status, out_of_order, mvars, fvars>>

(***************************************************************************)
(* Direct calls of the scoring functions, as test_analyzer makes them: the *)
(* arguments are drawn when the call is set up, the action applies the     *)
(* function.                                                               *)
(***************************************************************************)

\* self.config = config or self.load_default_config(): None and the empty
\* dict give the defaults, any other dict is kept as it is
Configure(c) == IF DOMAIN c = {} THEN load_default_config ELSE c

\* configurations handed to CryptoProjectAnalyzer(config)
ScoreConfigs ==
    {[load_default_config EXCEPT !.legitimacy_weight = w, !.sentiment_weight = w,
                                 !.min_description_length = l] :
        w \in {30, 90}, l \in {0, 30, 50}}

\* descriptions of 1, 30, 31, 50 and 51 characters, and one that names many
\* legitimacy indicators and trending sectors
ScoreDescriptions ==
    Descriptions \cup
    {<<".">>,
     <<"a protocol", "a protocol", "a protocol">>,
     <<"a protocol", "a protocol", "a protocol", ".">>,
     <<"a protocol", "a protocol", "a protocol", "a protocol", "a protocol">>,
     <<"a protocol", "a protocol", "a protocol", "a protocol", "a protocol", ".">>,
     <<"audit ", "roadmap ", "whitepaper team github community security ",
       "web3 ", "layer 2 ", "stablecoin metaverse interoperability cross-chain ">>}

\* nothing set but a supply above 1e15
AnonymousProfile == [BareProfile EXCEPT !.total_supply = 2000]

ScoreProjects ==
    {Project(n, d, f, m) :
        n \in Names, d \in ScoreDescriptions,
        f \in Profiles \cup {AnonymousProfile}, m \in Mistypings}

\* TextBlob polarities lie in [-1, 1]
ScorePolarities ==
    {[error |-> FALSE, mentions |-> TRUE, mean |-> m] : m \in {-100, -20, 60, 100}}
    \cup {NoPolarity}

\* the results of the gathered tasks when none stays suspended
Settled(p, cfg) ==
    [i \in Analyzers |-> IF TaskRaises(i, p, cfg) THEN "exc" ELSE "ok"]

\* calculate_composite_score raises KeyError: it reads
\* weights['legitimacy_weight'] and weights['sentiment_weight']
CompositeRaises(cfg) ==
    ~({"legitimacy_weight", "sentiment_weight"} \subseteq DOMAIN cfg)

\* a dict kept by the analyzer and handed to every call
SharedAnalysis(earlier) ==
    IF earlier = <<>> THEN InitialAnalysis ELSE earlier[Len(earlier)].analysis

\* analysis = {...}: every call of analyze_project builds its own dict,
\* whatever the earlier calls returned
NewAnalysis(earlier) == InitialAnalysis

\* how often the same call is made
MaxScorings == 2

\* analysis = await analyzer.analyze_project(p), then
\* analyzer.calculate_composite_score(analysis), which leaves no composite
\* score when it raises; the record carries its age in days, so the same
\* record is scored at the same evaluation time, and the mentions looked up
\* are those of its name
TestAnalyzer ==
    /\ arg.fn = "analyze_project"
    /\ Len(ret) < MaxScorings
    /\ LET a == BuildAnalysisFrom(NewAnalysis(ret), arg.project_data, config,
                                  arg.polarity, Settled(arg.project_data, config))
       IN ret' = IF CompositeRaises(config)
                 THEN Append(ret, [analysis |-> a])
                 ELSE Append(ret, [analysis |-> a,
                                   composite_score |->
                                       calculate_composite_score(a, config)])
    /\ UNCHANGED <<arg, avars, mvars>>

\* the flag names an analysis dict can carry
AllFlags ==
    <<"suspicious_keywords", "anonymous_team", "minimal_information",
      "suspicious_tokenomics", "potential_clone", "no_web_presence",
      "analysis_error">>

MaxFlags == 4

\* analysis dicts on both sides of every threshold the functions compare with
AnalysisGrid ==
    {[InitialAnalysis EXCEPT !.legitimacy_score = l, !.risk_level = r,
                             !.sentiment_score = se, !.trending_score = t,
                             !.flags = SubSeq(AllFlags, 1, n)] :
        l \in {0, 39, 40, 49, 50, 69, 70, 100},
        r \in {"low", "medium", "high", "unknown"},
        se \in {-100, 29, 30, 49, 50, 100},
        t \in {0, 59, 60, 100},
        n \in 0..MaxFlags}

\* analyzer.generate_recommendation(analysis)
CallRecommendation ==
    /\ arg.fn = "generate_recommendation"
    /\ ret = <<>>
    /\ ret' = <<generate_recommendation(arg.analysis)>>
    /\ UNCHANGED <<arg, avars, mvars>>

\* analyzer.calculate_composite_score(analysis)
CallCompositeScore ==
    /\ arg.fn = "calculate_composite_score"
    /\ ret = <<>>
    /\ ret' = <<calculate_composite_score(arg.analysis, config)>>
    /\ UNCHANGED <<arg, avars, mvars>>

(***************************************************************************)
(* DarkWebCryptoMonitor: configuration, relevance tests and classifiers.   *)
(***************************************************************************)

Sources == {"forum", "telegram", "threat", "blockchain", "social", "dark"}

monitored_keywords ==
    {"new token", "new coin", "presale", "private sale",
     "airdrop", "ico", "ido", "dex launch", "listing",
     "rug pull", "scam token", "pump dump", "insider info",
     "whale movements", "dev wallet", "liquidity drain"}

\* DarkWebCryptoMonitor.load_default_config (alert_threshold x100)
monitor_default_config ==
    [scan_interval |-> 300, max_concurrent_requests |-> 5,
     request_timeout |-> 30, alert_threshold |-> 70]

\* is_relevant_post
is_relevant_post(post) ==
    \E k \in monitored_keywords : Contains(post.title \o <<" ">> \o post.content, k)

\* contains_crypto_intelligence
contains_crypto_intelligence(message) ==
    \E k \in {"presale", "listing", "pump", "dump", "rug", "whale"} :
        Contains(message.message, k)

\* is_crypto_related
is_crypto_related(listing) ==
    \E k \in {"crypto", "bitcoin", "ethereum", "wallet", "private key", "exchange"} :
        Contains(listing.title \o <<" ">> \o listing.description, k)

\* 0.0 + 0.2 + ... + 0.2 (n times) in double precision is 0.2, 0.4,
\* 0.6000000000000001, 0.8, 1.0: the units in the last place by which the
\* sum exceeds the double nearest to n/5
SumExcess(n) == IF n = 3 THEN 1 ELSE 0

\* an analyze_forum_post whose author bonus is 0.5 instead of 0.2
AuthorWeighsMore(post) ==
    LET content == post.title \o <<" ">> \o post.content
        risk == {t \in {"scam", "rug pull", "avoid", "warning", "suspicious"} :
                     Contains(content, t)}
        opp == {t \in {"presale", "airdrop", "early access", "alpha"} :
                    Contains(content, t)}
        up == IF post.upvotes > 100 THEN 30
              ELSE IF post.upvotes > 50 THEN 20 ELSE 0
        au == IF Contains(post.author, "insider") \/ Contains(post.author, "pro")
              THEN 50 ELSE 0
    IN [risk_score |-> 20 * Cardinality(risk),
        risk_ulps |-> SumExcess(Cardinality(risk)),
        opportunity_score |-> 15 * Cardinality(opp),
        confidence |-> up + au]

\* analyze_forum_post (scores x100; risk_ulps is what the float risk_score
\* has above risk_score/100)
analyze_forum_post(post) ==
    LET content == post.title \o <<" ">> \o post.content
        risk == {t \in {"scam", "rug pull", "avoid", "warning", "suspicious"} :
                     Contains(content, t)}
        opp == {t \in {"presale", "airdrop", "early access", "alpha"} :
                    Contains(content, t)}
        up == IF post.upvotes > 100 THEN 30
              ELSE IF post.upvotes > 50 THEN 20 ELSE 0
        au == IF Contains(post.author, "insider") \/ Contains(post.author, "pro")
              THEN 20 ELSE 0
    IN [risk_score |-> 20 * Cardinality(risk),
        risk_ulps |-> SumExcess(Cardinality(risk)),
        opportunity_score |-> 15 * Cardinality(opp),
        confidence |-> up + au]

\* an analyze_telegram_message whose views bonus is 0.3 instead of 0.2
ViewsWeighedAsForwards(message) ==
    LET content == message.message
        urgent == \E t \in {"urgent", "breaking", "alert", "now", "immediate"} :
                      Contains(content, t)
    IN [confidence |-> (IF urgent THEN 30 ELSE 0)
                       + (IF message.views > 1000 THEN 30 ELSE 0)
                       + (IF message.forwards > 50 THEN 30 ELSE 0),
        urgency |-> IF urgent THEN "high" ELSE "low",
        type |-> "unknown",
        impact |-> IF message.forwards > 50 THEN "high" ELSE "low"]

\* analyze_telegram_message (confidence x100)
analyze_telegram_message(message) ==
    LET content == message.message
        urgent == \E t \in {"urgent", "breaking", "alert", "now", "immediate"} :
                      Contains(content, t)
        type == IF Contains(content, "warning") \/ Contains(content, "avoid")
                THEN "warning"
                ELSE IF Contains(content, "presale") \/ Contains(content, "opportunity")
                THEN "opportunity"
                ELSE IF Contains(content, "whale") THEN "whale_alert"
                ELSE "unknown"
    IN [confidence |-> (IF urgent THEN 30 ELSE 0)
                       + (IF message.views > 1000 THEN 20 ELSE 0)
                       + (IF message.forwards > 50 THEN 30 ELSE 0),
        urgency |-> IF urgent THEN "high" ELSE "low",
        type |-> type,
        impact |-> IF message.forwards > 50 THEN "high" ELSE "low"]

\* an analyze_dark_listing that rates every listed type 'high'
EveryListedTypeHigh(listing) ==
    [threat_level |->
         IF listing.listing_type \in {"stolen_credentials", "exchange_hack",
                                      "insider_trading", "market_manipulation"}
         THEN "high" ELSE "low",
     credibility |->
         IF Contains(listing.seller, "insider") \/ Contains(listing.seller, "pro")
         THEN 70 ELSE 0]

\* analyze_dark_listing
analyze_dark_listing(listing) ==
    [threat_level |->
         IF listing.listing_type \in {"stolen_credentials", "exchange_hack"}
         THEN "high"
         ELSE IF listing.listing_type \in {"insider_trading", "market_manipulation"}
         THEN "medium"
         ELSE "low",
     credibility |->
         IF Contains(listing.seller, "insider") \/ Contains(listing.seller, "pro")
         THEN 70 ELSE 0]

\* the thresholds of calculate_priority compared with > instead of >=
StrictPriority(risk_score, confidence) ==
    IF risk_score + confidence > 160 THEN "CRITICAL"
    ELSE IF risk_score + confidence > 120 THEN "HIGH"
    ELSE IF risk_score + confidence > 80 THEN "MEDIUM"
    ELSE "LOW"

\* calculate_priority (scores x100; a missing field counts as 0)
calculate_priority(risk_score, confidence) ==
    IF risk_score + confidence >= 160 THEN "CRITICAL"
    ELSE IF risk_score + confidence >= 120 THEN "HIGH"
    ELSE IF risk_score + confidence >= 80 THEN "MEDIUM"
    ELSE "LOW"

\* dict.get(key, 0)
Get(d, key) == IF key \in DOMAIN d THEN d[key] ELSE 0

\* the analysis dicts handed to calculate_priority: either field may be
\* missing (scores x100)
PriorityAnalyses ==
    UNION {[S -> {0, 10, 20, 30, 40, 50, 60, 70, 80, 90, 100}] :
               S \in SUBSET {"risk_score", "confidence"}}

\* monitor.calculate_priority(analysis)
CallPriority ==
    /\ arg.fn = "calculate_priority"
    /\ ret = <<>>
    /\ ret' = <<calculate_priority(Get(arg.analysis, "risk_score"),
                                   Get(arg.analysis, "confidence"))>>
    /\ UNCHANGED <<arg, avars, mvars>>

\* what datetime.now() can return: microseconds after 2025-01-01 12:00:00
ClockReadings == {1, 2, 1000001}

\* the titles of the records an alert is sent for; <<>> is a record without
\* the key 'title' (data.get('title', '') is then '')
AlertTitles == {<<"WARNING: ", "Avoid ", "Rug Pull ">>, <<>>}

\* the analysis dicts an alert is sent with
AlertAnalyses ==
    {[risk_score |-> 80, confidence |-> 50],
     [risk_score |-> 100, confidence |-> 50],
     [confidence |-> 90]}

\* hashlib.md5(f"{source}{title}{now}".encode()).hexdigest()[:8], tabulated
\* over the sources, titles and clock readings above
md5_prefix(source, title, now) ==
    CASE source = "forum" /\ title # <<>> /\ now = 1 -> "b3805e1e"
      [] source = "forum" /\ title # <<>> /\ now = 2 -> "97b450dc"
      [] source = "forum" /\ title # <<>> /\ now = 1000001 -> "47a481d2"
      [] source = "forum" /\ title = <<>> /\ now = 1 -> "5989a255"
      [] source = "forum" /\ title = <<>> /\ now = 2 -> "6445a69c"
      [] source = "forum" /\ title = <<>> /\ now = 1000001 -> "617ad5fc"
      [] source = "telegram" /\ title # <<>> /\ now = 1 -> "64afcf1e"
      [] source = "telegram" /\ title # <<>> /\ now = 2 -> "c9e354a1"
      [] source = "telegram" /\ title # <<>> /\ now = 1000001 -> "ec01a931"
      [] source = "telegram" /\ title = <<>> /\ now = 1 -> "da6df702"
      [] source = "telegram" /\ title = <<>> /\ now = 2 -> "514b99f9"
      [] source = "telegram" /\ title = <<>> /\ now = 1000001 -> "472f218a"

\* the dict built in send_intelligence_alert; datetime.now() is read once for
\* the id and once more for the timestamp
IntelligenceAlert(source, title, a, id_now, stamp_now) ==
    [alert_id |-> md5_prefix(source, title, id_now),
     source |-> source,
     timestamp |-> stamp_now,
     data |-> [title |-> title],
     analysis |-> a,
     priority |-> calculate_priority(Get(a, "risk_score"), Get(a, "confidence"))]

\* alerts sent in one run of direct calls
MaxAlerts == 2

\* monitor.send_intelligence_alert(source, data, analysis), called again
\* with the same arguments; the clock does not run backwards
CallSendIntelligenceAlert ==
    /\ arg.fn = "send_intelligence_alert"
    /\ Len(ret) < MaxAlerts
    /\ \E id_now \in ClockReadings, stamp_now \in ClockReadings :
         /\ id_now <= stamp_now
         /\ ret # <<>> => ret[Len(ret)].timestamp <= id_now
         /\ ret' = Append(ret, IntelligenceAlert(arg.source, arg.title,
                                                 arg.analysis, id_now, stamp_now))
    /\ UNCHANGED <<arg, avars, mvars>>

(***************************************************************************)
(* Observations.  The scan functions return hard-coded lists ("simulated"  *)
(* transport); their comments ask to replace them with real API calls, the *)
(* "live" transport, which may return any list of observations.            *)
(***************************************************************************)

Post(t, c, a, u) == [title |-> t, content |-> c, author |-> a, upvotes |-> u]
Message(m, v, f) == [message |-> m, views |-> v, forwards |-> f]
\* has_severity: the record holds the key 'severity'
Threat(h, sev) == [has_severity |-> h, severity |-> sev]
\* has_risk_score: the record holds the key 'risk_score'
Activity(h, r) == [has_risk_score |-> h, risk_score |-> r]
\* has_impact_score: the record holds the key 'impact_score' (x100)
Insight(h, i) == [has_impact_score |-> h, impact_score |-> i]
Listing(t, d, ty, se) ==
    [title |-> t, description |-> d, listing_type |-> ty, seller |-> se]

\* the lists built in scan_crypto_forums, scan_telegram_channels,
\* fetch_threat_intelligence, analyze_blockchain_activities,
\* gather_social_intelligence and scan_dark_marketplaces
Simulated(s) ==
    CASE s = "forum" ->
           <<Post(<<"hello ">>, <<"Presale ">>, <<"insider">>, 45),
             Post(<<"WARNING: ", "Avoid ", "Rug Pull ">>, <<"whale movements ">>,
                  <<"hello ">>, 156),
             Post(<<"Alpha ", "Listing ">>, <<"hello ">>, <<"hello ">>, 234)>>
      [] s = "telegram" ->
           <<Message(<<"URGENT: ", "Presale ">>, 2500, 45),
             Message(<<"WARNING: ", "Avoid ">>, 1800, 123),
             Message(<<"Whale Alert: ", "dump ">>, 3200, 89)>>
      [] s = "threat" -> <<Threat(TRUE, 8), Threat(TRUE, 6)>>
      [] s = "blockchain" -> <<Activity(TRUE, 9), Activity(TRUE, 10)>>
      [] s = "social" -> <<Insight(TRUE, 90), Insight(TRUE, 85)>>
      [] s = "dark" ->
           <<Listing(<<"Private Keys ", "wallets ">>, <<"hello ">>,
                     "stolen_credentials", <<"hello ">>),
             Listing(<<"Exchange ">>, <<"hello ">>, "insider_trading",
                     <<"insider">>)>>

\* observations a live source may deliver
LiveObservations(s) ==
    CASE s = "forum" ->
           {Post(<<"WARNING: ", "Avoid ", "Rug Pull ">>, <<"scam token ">>,
                 <<"insider">>, 156),
            Post(<<"WARNING: ", "Avoid ", "Rug Pull ">>, <<"whale movements ">>,
                 <<"hello ">>, 51),
            Post(<<"WARNING: ", "Avoid ", "suspicious ">>, <<"scam ">>,
                 <<"hello ">>, 10),
            Post(<<"Alpha ">>, <<"Presale ">>, <<"insider">>, 234),
            Post(<<"WARNING: ", "Avoid ", "Rug Pull ", "suspicious ">>,
                 <<"scam token ">>, <<"insider">>, 156),
            Post(<<"WARNING: ", "Avoid ", "Rug Pull ">>, <<"scam ">>,
                 <<"hello ">>, 10)}
      [] s = "telegram" ->
           {Message(<<"URGENT: ", "Presale ">>, 2500, 45),
            Message(<<"Whale Alert: ", "dump ">>, 3200, 89),
            Message(<<"WARNING: ", "Avoid ">>, 1800, 123)}
      [] s = "threat" ->
           {Threat(TRUE, 8), Threat(TRUE, 7), Threat(TRUE, 6), Threat(FALSE, 0)}
      [] s = "blockchain" ->
           {Activity(TRUE, 9), Activity(TRUE, 8), Activity(FALSE, 0)}
      [] s = "social" ->
           {Insight(TRUE, 90), Insight(TRUE, 70), Insight(FALSE, 0)}
      [] s = "dark" ->
           {Listing(<<"Private Keys ", "wallets ">>, <<"hello ">>,
                    "stolen_credentials", <<"hello ">>),
            Listing(<<"Exchange ">>, <<"hello ">>, "insider_trading",
                    <<"insider">>),
            Listing(<<"passports ">>, <<"hello ">>, "exchange_hack",
                    <<"hello ">>),
            Listing(<<"wallets ">>, <<"hello ">>, "carding", <<"hello ">>)}

\* longest list a live fetch returns
MaxBatch == 2

Lists(S, n) == UNION {[1..k -> S] : k \in 0..n}

\* what the scan function of s can return: its try block swallows a failing
\* transport and returns the (empty) list built so far
ScanResults(s, tr, failed) ==
    IF failed THEN {<<>>}
    ELSE IF tr = "simulated" THEN {Simulated(s)}
    ELSE Lists(LiveObservations(s), MaxBatch)

(***************************************************************************)
(* The polling loops.                                                      *)
(***************************************************************************)

\* asyncio.sleep at the end of a successful iteration
Interval(s, cfg) ==
    CASE s = "threat" -> cfg.scan_interval * 2
      [] s = "dark" -> cfg.scan_interval * 3
      [] OTHER -> cfg.scan_interval

\* asyncio.sleep in the except branch
Cooldown(s) ==
    CASE s = "threat" -> 120
      [] s = "dark" -> 180
      [] OTHER -> 60

\* the body of the for loop up to the alert call: "raise" (a KeyError on a
\* subscript), "alert" (the alert operation is called) or "skip"
Classify(s, o, cfg) ==
    CASE s = "forum" ->
           IF is_relevant_post(o)
           THEN IF \/ analyze_forum_post(o).risk_score > cfg.alert_threshold
                   \/ /\ analyze_forum_post(o).risk_score = cfg.alert_threshold
                      /\ analyze_forum_post(o).risk_ulps > 0
                THEN "alert" ELSE "skip"
           ELSE "skip"
      [] s = "telegram" ->
           IF contains_crypto_intelligence(o)
           THEN IF analyze_telegram_message(o).confidence > 80
                THEN "alert" ELSE "skip"
           ELSE "skip"
      [] s = "threat" ->
           IF ~o.has_severity THEN "raise"
           ELSE IF o.severity >= 7 THEN "alert" ELSE "skip"
      [] s = "blockchain" ->
           IF ~o.has_risk_score THEN "raise"
           ELSE IF o.risk_score > 8 THEN "alert" ELSE "skip"
      [] s = "social" ->
           IF ~o.has_impact_score THEN "raise"
           ELSE IF o.impact_score > 70 THEN "alert" ELSE "skip"
      [] s = "dark" ->
           IF is_crypto_related(o)
           THEN IF analyze_dark_listing(o).threat_level = "high"
                THEN "alert" ELSE "skip"
           ELSE "skip"

\* a loop without the try block: an exception ends the coroutine
OnErrorUncaught(s) == "terminated"

\* where an exception raised inside the try block of a loop leaves the loop:
\* "except Exception" catches it and sleeps the cooldown
OnError(s) == "cooldown"

\* start_monitoring awaiting its loops one after the other: the first never
\* returns, so the others are never started
AwaitedInTurn == {"forum"}

\* the coroutines asyncio.gather runs in start_monitoring
GatheredTasks == Sources

\* whether the transport raises inside the try block of the scan function
Failures(s) == IF s \in faulty THEN BOOLEAN ELSE {FALSE}

\* whether the alert operation returns
Deliveries(s) == IF s \in faulty THEN BOOLEAN ELSE {TRUE}

\* the loop of s is suspended at an await and start_monitoring is not cancelled
Running(s) == s \in tasks /\ ~cancelled

\* a for loop over every second element of the list
AdvanceByTwo(s, i) ==
    IF i + 1 < Len(batch[s])
    THEN /\ pc' = [pc EXCEPT ![s] = "iter"]
         /\ idx' = [idx EXCEPT ![s] = i + 2]
         /\ last_sleep' = last_sleep
    ELSE /\ pc' = [pc EXCEPT ![s] = "sleep"]
         /\ idx' = [idx EXCEPT ![s] = Len(batch[s]) + 1]
         /\ last_sleep' = [last_sleep EXCEPT ![s] = Interval(s, mconfig)]

\* the loop moves on from observation i of its batch
Advance(s, i) ==
    IF i < Len(batch[s])
    THEN /\ pc' = [pc EXCEPT ![s] = "iter"]
         /\ idx' = [idx EXCEPT ![s] = i + 1]
         /\ last_sleep' = last_sleep
    ELSE /\ pc' = [pc EXCEPT ![s] = "sleep"]
         /\ idx' = [idx EXCEPT ![s] = i + 1]
         /\ last_sleep' = [last_sleep EXCEPT ![s] = Interval(s, mconfig)]

\* an except branch that goes back to the observation that raised
HandleWithRetry(s) ==
    /\ pc' = pc
    /\ last_sleep' = last_sleep
    /\ idx' = idx

\* a try block inside the for loop: the error is printed and the loop goes
\* on with the next observation of the batch
HandlePerObservation(s) == Advance(s, idx[s])

\* the except branch: the error is printed and the loop sleeps
Handle(s) ==
    /\ pc' = [pc EXCEPT ![s] = OnError(s)]
    /\ last_sleep' = [last_sleep EXCEPT ![s] = Cooldown(s)]
    /\ idx' = idx

\* data = await self.scan_...(): the list arrives; an empty one ends the
\* for loop at once
Fetch(s) ==
    /\ Running(s)
    /\ pc[s] = "fetch"
    /\ \E failed \in Failures(s) :
         \E b \in ScanResults(s, transport, failed) :
            /\ batch' = [batch EXCEPT ![s] = b]
            /\ fetch_failed' = [fetch_failed EXCEPT ![s] = failed]
            /\ calls' = [calls EXCEPT ![s] = <<>>]
            /\ IF b = <<>>
               THEN /\ pc' = [pc EXCEPT ![s] = "sleep"]
                    /\ last_sleep' = [last_sleep EXCEPT ![s] = Interval(s, mconfig)]
                    /\ idx' = [idx EXCEPT ![s] = 1]
               ELSE /\ pc' = [pc EXCEPT ![s] = "iter"]
                    /\ last_sleep' = last_sleep
                    /\ idx' = [idx EXCEPT ![s] = 1]
    /\ UNCHANGED <<avars, fvars, mconfig, transport, faulty, tasks, cancelled>>

\* one pass of the for loop body over batch[s][idx[s]]; the alert operation,
\* when called, returns or raises
Process(s) ==
    /\ Running(s)
    /\ pc[s] = "iter"
    /\ \E delivered \in Deliveries(s) :
         LET i == idx[s]
             c == Classify(s, batch[s][i], mconfig)
         IN /\ calls' = IF c = "alert"
                        THEN [calls EXCEPT ![s] = Append(@, i)] ELSE calls
            /\ IF c = "raise" \/ (c = "alert" /\ ~delivered)
               THEN Handle(s)
               ELSE Advance(s, i)
    /\ UNCHANGED <<avars, fvars, mconfig, transport, faulty, tasks, cancelled, batch, fetch_failed>>

\* asyncio.sleep returns and the while loop starts its next iteration
Wake(s) ==
    /\ Running(s)
    /\ pc[s] \in {"sleep", "cooldown"}
    /\ pc' = [pc EXCEPT ![s] = "fetch"]
    /\ batch' = [batch EXCEPT ![s] = <<>>]
    /\ idx' = [idx EXCEPT ![s] = 1]
    /\ calls' = [calls EXCEPT ![s] = <<>>]
    /\ last_sleep' = [last_sleep EXCEPT ![s] = 0]
    /\ fetch_failed' = [fetch_failed EXCEPT ![s] = FALSE]
    /\ UNCHANGED <<avars, fvars, mconfig, transport, faulty, tasks, cancelled>>

\* the task running start_monitoring is cancelled; the gather cancels its
\* children
Cancel ==
    /\ tasks # {}
    /\ ~cancelled
    /\ cancelled' = TRUE
    /\ UNCHANGED <<avars, fvars, mconfig, transport, faulty, tasks, pc, batch, idx, calls,
                   last_sleep, fetch_failed>>

\* an except branch that catches CancelledError too (a bare except, or
\* "except Exception" before Python 3.8): the loop sleeps its cooldown
CancellationSwallowed(s) ==
    /\ s \in tasks
    /\ cancelled
    /\ pc[s] \in {"fetch", "iter", "sleep"}
    /\ pc' = [pc EXCEPT ![s] = "cooldown"]
    /\ last_sleep' = [last_sleep EXCEPT ![s] = Cooldown(s)]
    /\ UNCHANGED <<avars, fvars, mconfig, transport, faulty, tasks, cancelled, batch,
                   idx, calls, fetch_failed>>

\* CancelledError is raised at the await the loop is suspended at; it is no
\* Exception (Python 3.8), so the except branch lets it through
Cancelled(s) ==
    /\ s \in tasks
    /\ cancelled
    /\ pc[s] \in {"fetch", "iter", "sleep", "cooldown"}
    /\ pc' = [pc EXCEPT ![s] = "cancelled"]
    /\ batch' = [batch EXCEPT ![s] = <<>>]
    /\ idx' = [idx EXCEPT ![s] = 1]
    /\ calls' = [calls EXCEPT ![s] = <<>>]
    /\ last_sleep' = [last_sleep EXCEPT ![s] = 0]
    /\ fetch_failed' = [fetch_failed EXCEPT ![s] = FALSE]
    /\ UNCHANGED <<avars, fvars, mconfig, transport, faulty, tasks, cancelled>>

\* one step of the loop of s while start_monitoring is not cancelled
RunStep(s) == Fetch(s) \/ Process(s) \/ Wake(s)

\* one step of the loop of s
LoopStep(s) == RunStep(s) \/ Cancelled(s)

\* start_monitoring has returned: every gathered coroutine has finished
MonitorReturned ==
    tasks # {} /\ \A s \in tasks : pc[s] \in {"cancelled", "terminated"}

(***************************************************************************)
(* Specifications.                                                         *)
(***************************************************************************)

NoProject == Project(<<>>, <<>>, BareProfile, {})

\* the analyzer after CryptoProjectAnalyzer()
AnalyzerInit ==
    /\ config \in Configs
    /\ phase = "idle"
    /\ project_data = NoProject
    /\ polarity = NoPolarity
    /\ status = [i \in Analyzers |-> "pending"]
    /\ out_of_order = FALSE
    /\ analysis = InitialAnalysis

\* the monitor after DarkWebCryptoMonitor(), no loop started
MonitorIdle ==
    /\ mconfig = monitor_default_config
    /\ pc = [s \in Sources |-> "idle"]
    /\ batch = [s \in Sources |-> <<>>]
    /\ idx = [s \in Sources |-> 1]
    /\ calls = [s \in Sources |-> <<>>]
    /\ last_sleep = [s \in Sources |-> 0]
    /\ fetch_failed = [s \in Sources |-> FALSE]
    /\ cancelled = FALSE

\* the monitor once the coroutines of T have been created
MonitorStarted(T) ==
    /\ mconfig = monitor_default_config
    /\ tasks = T
    /\ pc = [s \in Sources |-> IF s \in T THEN "fetch" ELSE "idle"]
    /\ batch = [s \in Sources |-> <<>>]
    /\ idx = [s \in Sources |-> 1]
    /\ calls = [s \in Sources |-> <<>>]
    /\ last_sleep = [s \in Sources |-> 0]
    /\ fetch_failed = [s \in Sources |-> FALSE]
    /\ cancelled = FALSE

\* no scoring function is called directly
NoDirectCall ==
    /\ arg = [fn |-> "none"]
    /\ ret = <<>>

\* analyze_project calls on one analyzer
Init ==
    /\ AnalyzerInit
    /\ NoDirectCall
    /\ MonitorIdle
    /\ tasks = {}
    /\ transport = "simulated"
    /\ faulty = {}

Next ==
    \/ \E p \in Projects, pol \in Polarities : Call(p, pol)
    \/ \E i \in Analyzers : Complete(i)
    \/ \E i \in Analyzers : Raise(i)
    \/ Hang
    \/ Return

Spec == Init /\ [][Next]_vars

\* start_monitoring: the six loops over the simulated transport
MonitorInit ==
    /\ AnalyzerInit
    /\ NoDirectCall
    /\ MonitorStarted(GatheredTasks)
    /\ transport = "simulated"
    /\ faulty = Sources

MonitorNext == Cancel \/ \E s \in Sources : LoopStep(s)

MonitorSpec == MonitorInit /\ [][MonitorNext]_vars

\* the six loops when the dark marketplace source is the one that fails and
\* start_monitoring is never cancelled
FailingSources == {"dark"}

FairMonitorInit ==
    /\ AnalyzerInit
    /\ NoDirectCall
    /\ MonitorStarted(GatheredTasks)
    /\ transport = "simulated"
    /\ faulty = FailingSources

FairMonitorNext == \E s \in Sources : RunStep(s)

\* the event loop runs every coroutine that is ready
FairMonitorSpec ==
    /\ FairMonitorInit
    /\ [][FairMonitorNext]_vars
    /\ \A s \in Sources : WF_vars(RunStep(s))

\* one polling loop over a live transport
LoopInit ==
    \E s \in Sources :
        /\ AnalyzerInit
        /\ NoDirectCall
        /\ MonitorStarted({s})
        /\ transport = "live"
        /\ faulty = {s}

LoopSpec == LoopInit /\ [][MonitorNext]_vars

\* the records scored while the loops run
PipelineProjects ==
    {Project(<<"Safe", "Moon", "X", "9999">>,
             <<"guaranteed profit", ", ", "no risk">>, BareProfile, m) :
        m \in {{}, {"name"}, {"market_cap"}}}

\* an analyzer and a monitor in one process: the threat or the dark
\* marketplace loop polls a live transport while analyze_project is called
PipelineInit ==
    \E s \in {"threat", "dark"} :
        /\ AnalyzerInit
        /\ NoDirectCall
        /\ MonitorStarted({s})
        /\ transport = "live"
        /\ faulty = {s}

PipelineNext ==
    \/ \E p \in PipelineProjects : Call(p, NoPolarity)
    \/ \E i \in Analyzers : Complete(i)
    \/ \E i \in Analyzers : Raise(i)
    \/ Hang
    \/ Return
    \/ Cancel
    \/ \E s \in Sources : LoopStep(s)

PipelineSpec == PipelineInit /\ [][PipelineNext]_vars

\* the dicts handed to DarkWebCryptoMonitor(config): every option set,
\* scan_interval and alert_threshold (x100) chosen by the operator
MonitorConfigs ==
    {[monitor_default_config EXCEPT !.scan_interval = i, !.alert_threshold = t] :
        i \in {30, 60, 300}, t \in {40, 60, 70}}

\* one polling loop of a monitor constructed with one of the dicts, over a
\* live transport
ConfiguredLoopInit ==
    \E s \in Sources :
        /\ AnalyzerInit
        /\ NoDirectCall
        /\ mconfig \in MonitorConfigs
        /\ tasks = {s}
        /\ pc = [t \in Sources |-> IF t = s THEN "fetch" ELSE "idle"]
        /\ batch = [t \in Sources |-> <<>>]
        /\ idx = [t \in Sources |-> 1]
        /\ calls = [t \in Sources |-> <<>>]
        /\ last_sleep = [t \in Sources |-> 0]
        /\ fetch_failed = [t \in Sources |-> FALSE]
        /\ cancelled = FALSE
        /\ transport = "live"
        /\ faulty = {s}

ConfiguredLoopSpec == ConfiguredLoopInit /\ [][MonitorNext]_vars

\* the arguments a direct call is made with
DirectCalls ==
    {[fn |-> "analyze_project", project_data |-> p, polarity |-> pol] :
        p \in ScoreProjects, pol \in ScorePolarities}
    \cup {[fn |-> f, analysis |-> a] :
              f \in {"generate_recommendation", "calculate_composite_score"},
              a \in AnalysisGrid}
    \cup {[fn |-> "calculate_priority", analysis |-> a] : a \in PriorityAnalyses}
    \cup {[fn |-> "send_intelligence_alert", source |-> s, title |-> t,
           analysis |-> a] :
              s \in {"forum", "telegram"}, t \in AlertTitles, a \in AlertAnalyses}

\* an analyzer built with one of the configurations, a monitor, and one
\* direct call set up
FunctionInit ==
    /\ config \in ScoreConfigs
    /\ phase = "idle"
    /\ project_data = NoProject
    /\ polarity = NoPolarity
    /\ status = [i \in Analyzers |-> "pending"]
    /\ out_of_order = FALSE
    /\ analysis = InitialAnalysis
    /\ MonitorIdle
    /\ tasks = {}
    /\ transport = "simulated"
    /\ faulty = {}
    /\ arg \in DirectCalls
    /\ ret = <<>>

FunctionNext ==
    \/ TestAnalyzer
    \/ CallRecommendation
    \/ CallCompositeScore
    \/ CallPriority
    \/ CallSendIntelligenceAlert

FunctionSpec == FunctionInit /\ [][FunctionNext]_vars

\* the options the analyzer reads from its config
RequiredOptions ==
    {"min_description_length", "github_min_stars", "legitimacy_weight",
     "sentiment_weight"}

\* the dicts handed to CryptoProjectAnalyzer(config): none, the defaults,
\* and dicts that lack options
SuppliedConfigs ==
    {<<>>, load_default_config,
     [sentiment_weight |-> 30, risk_weight |-> 40, legitimacy_weight |-> 30],
     [min_description_length |-> 50, github_min_stars |-> 5],
     [sentiment_weight |-> 30, legitimacy_weight |-> 30,
      min_description_length |-> 50],
     [max_risk_score |-> 10]}

\* an analyzer constructed with one of the dicts, and a scoring call set up
ConfigInit ==
    /\ \E c \in SuppliedConfigs : config = Configure(c)
    /\ phase = "idle"
    /\ project_data = NoProject
    /\ polarity = NoPolarity
    /\ status = [i \in Analyzers |-> "pending"]
    /\ out_of_order = FALSE
    /\ analysis = InitialAnalysis
    /\ MonitorIdle
    /\ tasks = {}
    /\ transport = "simulated"
    /\ faulty = {}
    /\ arg \in {[fn |-> "analyze_project", project_data |-> p, polarity |-> pol] :
                   p \in Projects, pol \in Polarities}
    /\ ret = <<>>

ConfigNext == TestAnalyzer

ConfigSpec == ConfigInit /\ [][ConfigNext]_vars

(***************************************************************************)
(* Claims about analyze_project (specification Spec).                      *)
(***************************************************************************)

Recommendations == {"avoid", "research", "monitor", "watch", "hold"}

Failed == {i \in Analyzers : status[i] = "exc"}

\* C1: the returned assessment recommends 'avoid' if and only if its
\* risk_level is 'high' or its flags list has 3 or more entries.
C1_AvoidIffHighRiskOrThreeFlags ==
    phase = "returned" =>
        (analysis.recommendation = "avoid"
            <=> (analysis.risk_level = "high" \/ Len(analysis.flags) >= 3))

\* C2: when sub-analyzers raise, the assessment is still returned: every one
\* that succeeded contributes its computed value, every failed one its
\* neutral default, and a recommendation is produced.
C2_PartialResultsUsable ==
    phase = "returned" =>
        /\ analysis.legitimacy_score =
               IF 1 \in Failed THEN 0 ELSE analyze_legitimacy(project_data, config)
        /\ analysis.risk_level =
               IF 2 \in Failed THEN "unknown" ELSE analyze_risk(project_data)
        /\ analysis.sentiment_score =
               IF 3 \in Failed THEN 0 ELSE analyze_sentiment(polarity)
        /\ analysis.social_metrics =
               IF 4 \in Failed THEN EmptyMetrics
               ELSE analyze_social_metrics(project_data)
        /\ analysis.technical_analysis =
               IF 5 \in Failed THEN EmptyTechnical
               ELSE analyze_technical_indicators(project_data)
        /\ analysis.trending_score =
               IF 6 \in Failed THEN 0 ELSE analyze_trending_potential(project_data)
        /\ analysis.recommendation \in Recommendations
        /\ (analysis.risk_level = "high" => analysis.recommendation = "avoid")

\* C2 witness: an assessment was returned after the risk analyzer raised and
\* the legitimacy analyzer succeeded with a score above its default.
C2_Witness ==
    /\ phase = "returned"
    /\ status[2] = "exc"
    /\ status[1] = "ok"
    /\ analysis.legitimacy_score > 0
    /\ analysis.risk_level = "unknown"

\* C3: whenever at least one sub-analyzer failed, the flags of the returned
\* assessment contain 'analysis_error'.
C3_FailureFlagged ==
    (phase = "returned" /\ Failed # {}) =>
        \E k \in 1..Len(analysis.flags) : analysis.flags[k] = "analysis_error"

\* C4: a call of analyze_project is never stuck: while it has not returned,
\* some step of it (a completion, or the return that replaces an abandoned
\* sub-analyzer by its default) is possible.
C4_NeverBlocked ==
    phase = "gathering" =>
        ENABLED (Return \/ \E i \in Analyzers : Complete(i) \/ Raise(i))

\* C5: the assessment is built only after all six sub-analyzers have
\* completed or failed, and it is the one the outcomes of the six determine,
\* whatever the order in which they completed.
C5_BuiltAfterAllInAnyOrder ==
    phase = "returned" =>
        /\ \A i \in Analyzers : status[i] \in {"ok", "exc"}
        /\ analysis = BuildAnalysis(project_data, config, polarity,
                          [i \in Analyzers |-> IF i \in Failed THEN "exc" ELSE "ok"])

\* C5 witness: an assessment was returned after the sub-analyzers completed
\* in an order other than that of the task list.
C5_Witness ==
    /\ phase = "returned"
    /\ out_of_order
    /\ Failed = {}
    /\ analysis.recommendation # "hold"

(***************************************************************************)
(* Claims about the polling loops.                                         *)
(***************************************************************************)

Range(f) == {f[k] : k \in 1..Len(f)}

Times(f, x) == Cardinality({k \in 1..Len(f) : f[k] = x})

\* the loop of s has ended its iteration and sleeps
Sleeping(s) == pc[s] \in {"sleep", "cooldown"}

\* what one loop owns
LoopState(s) == <<pc[s], batch[s], idx[s], calls[s], last_sleep[s], fetch_failed[s]>>

\* C6: no exception raised inside an iteration ends a loop: the loop goes to
\* its cooldown sleep and from there to its next fetch, and start_monitoring
\* returns only when cancelled.
C6_ErrorsNeverEndALoop ==
    /\ [](\A s \in Sources : pc[s] # "terminated")
    /\ [](MonitorReturned => cancelled)
    /\ [][\A s \in Sources :
            /\ (pc[s] = "iter" /\ pc'[s] \notin {"iter", "sleep", "cancelled"})
                   => pc'[s] = "cooldown"
            /\ (pc[s] = "cooldown" /\ pc'[s] # "cooldown")
                   => pc'[s] \in {"fetch", "cancelled"}]_vars

\* C6 witness: a loop whose alert step raised is in its cooldown sleep while
\* a loop that failed earlier has started its next iteration.
C6_Witness ==
    /\ pc["threat"] = "cooldown"
    /\ calls["threat"] = <<1>>
    /\ pc["blockchain"] = "iter"
    /\ idx["blockchain"] = 2
    /\ ~cancelled

\* the positions of the simulated batch of s whose observations qualify
Qualifying(s) ==
    {k \in 1..Len(Simulated(s)) : Classify(s, Simulated(s)[k], mconfig) = "alert"}

\* C7: with the six loops running under fair scheduling and one source
\* failing, every loop fetches again and again, every other loop again and
\* again ends an iteration having called the alert operation for exactly its
\* qualifying observations, and a step of one loop changes no state of
\* another.
C7_LoopsIndependent ==
    /\ \A s \in Sources : []<>(pc[s] = "fetch")
    /\ \A s \in Sources \ FailingSources :
          []<>(pc[s] = "sleep" /\ Range(calls[s]) = Qualifying(s))
    /\ [][\A s, t \in Sources :
            s # t => (LoopState(s)' = LoopState(s) \/ LoopState(t)' = LoopState(t))]_vars

\* C7 witness: the failing loop is in its error cooldown while the blockchain
\* loop has alerted both of its qualifying observations and the threat loop
\* its one.
C7_Witness ==
    /\ faulty = FailingSources
    /\ pc["dark"] = "cooldown"
    /\ pc["blockchain"] = "sleep"
    /\ calls["blockchain"] = <<1, 2>>
    /\ pc["threat"] = "sleep"
    /\ calls["threat"] = <<1>>

\* C8: when the transport of a fetch raised, the next sleep of that loop is
\* the error cooldown and not the scan interval.
C8_FailedFetchCoolsDown ==
    \A s \in Sources :
        (fetch_failed[s] /\ Sleeping(s)) =>
            (pc[s] = "cooldown" /\ last_sleep[s] = Cooldown(s))

\* C9: every record of a fetched threat batch with severity >= 7 is passed to
\* process_threat_alert in that iteration, whatever else the batch holds, and
\* no record with severity < 7 is.
C9_SevereThreatsAlwaysAlert ==
    Sleeping("threat") =>
        /\ \A k \in 1..Len(batch["threat"]) :
              (batch["threat"][k].has_severity /\ batch["threat"][k].severity >= 7)
                  => k \in Range(calls["threat"])
        /\ \A k \in Range(calls["threat"]) : batch["threat"][k].severity >= 7

\* C10: at the end of an iteration each qualifying observation of the batch
\* has caused exactly one call of the alert operation, also when another
\* observation of the batch raised.
C10_OneCallPerQualifying ==
    \A s \in Sources :
        Sleeping(s) =>
            \A k \in 1..Len(batch[s]) :
                Classify(s, batch[s][k], mconfig) = "alert" => Times(calls[s], k) = 1

\* the alert operation raised for the observation the loop of s stopped at
DeliveryFailed(s) ==
    /\ pc[s] = "cooldown"
    /\ idx[s] \in 1..Len(batch[s])
    /\ Classify(s, batch[s][idx[s]], mconfig) = "alert"

\* C11: a failed delivery is not retried: the failing observation was handed
\* to the alert operation once, as the last call of its batch, no observation
\* of the batch is handed over twice, and the loop makes no further call
\* until it has fetched a new batch.
C11_FailedDeliveryNotRetried ==
    /\ [](\A s \in Sources :
            /\ \A k \in 1..Len(batch[s]) : Times(calls[s], k) <= 1
            /\ DeliveryFailed(s) =>
                  /\ calls[s] # <<>>
                  /\ calls[s][Len(calls[s])] = idx[s])
    /\ [][\A s \in Sources :
            DeliveryFailed(s) =>
                \/ calls'[s] = calls[s]
                \/ pc'[s] \in {"fetch", "cancelled"}]_vars

\* C11 witness: the alert operation raised for the second observation of a
\* batch after the first had been delivered.
C11_Witness ==
    \E s \in Sources :
        /\ DeliveryFailed(s)
        /\ calls[s] = <<1, 2>>

\* C12: the observations of a batch are classified and alerted in the order
\* of the list: the calls of a batch are in increasing position, when the
\* loop reaches a position every qualifying observation before it has been
\* alerted and none after it, and while the for loop runs the batch stays
\* the same and the only call added is the one for the current position, so
\* the calls of a batch all come before the next fetch.
C12_AlertedInFetchOrder ==
    /\ [](\A s \in Sources :
            /\ \A a, b \in 1..Len(calls[s]) : a < b => calls[s][a] < calls[s][b]
            /\ \A k \in Range(calls[s]) : k <= idx[s]
            /\ pc[s] \in {"iter", "sleep"} =>
                  \A j \in 1..Len(batch[s]) :
                      j < idx[s] =>
                          (Classify(s, batch[s][j], mconfig) = "alert"
                              <=> j \in Range(calls[s])))
    /\ [][\A s \in Sources :
            (pc[s] = "iter" /\ pc'[s] # "cancelled") =>
                /\ batch'[s] = batch[s]
                /\ calls'[s] \in {calls[s], Append(calls[s], idx[s])}]_vars

\* C12 witness: a loop has ended its iteration with the first and the second
\* observation of the batch alerted, in that order.
C12_Witness ==
    \E s \in Sources :
        /\ pc[s] = "sleep"
        /\ Len(batch[s]) = 2
        /\ calls[s] = <<1, 2>>

\* C13: once start_monitoring is cancelled, every loop that has not exited
\* can exit at the await it is suspended at, exiting is the only step a loop
\* takes (no fetch, no alert, no sleep of an except branch), and a loop that
\* has exited stays so.
C13_CancellationEndsEveryLoop ==
    /\ [](cancelled =>
            \A s \in Sources : pc[s] # "cancelled" => ENABLED Cancelled(s))
    /\ [](\A s \in Sources : pc[s] = "cancelled" => cancelled)
    /\ [][cancelled =>
            \A s \in Sources :
                /\ pc'[s] \in {pc[s], "cancelled"}
                /\ calls'[s] # calls[s] => pc'[s] = "cancelled"
                /\ last_sleep'[s] # last_sleep[s] => pc'[s] = "cancelled"]_vars

\* C13 witness: after the cancellation the forum loop has exited from inside
\* its for loop while the threat loop is still in its cooldown sleep.
C13_Witness ==
    /\ cancelled
    /\ pc["forum"] = "cancelled"
    /\ pc["threat"] = "cooldown"
    /\ pc["dark"] = "iter"

(***************************************************************************)
(* Claims about the scoring functions (specification FunctionSpec).        *)
(***************************************************************************)

\* C14: for every project record and configuration the scores are within
\* their declared ranges: legitimacy_score in [0, 1], sentiment_score in
\* [-1, 1], trending_score in [0, 1] and the composite score in [0, 1]
\* (the composite score is scaled by 100000), for any number of matched
\* keywords, any number of flags and any risk level.
C14_ScoresInRange ==
    /\ arg.fn = "analyze_project" =>
           \A k \in 1..Len(ret) :
               /\ ret[k].analysis.legitimacy_score \in 0..100
               /\ ret[k].analysis.sentiment_score \in -100..100
               /\ ret[k].analysis.trending_score \in 0..100
               /\ "composite_score" \in DOMAIN ret[k]
               /\ ret[k].composite_score \in 0..100000
    /\ (arg.fn = "calculate_composite_score" /\ ret # <<>>) =>
           ret[1] \in 0..100000

\* a record that names seven legitimacy indicators and six trending sectors
\* was scored with weights of 0.9, and both scores and the composite score
\* sit at their upper end
C14_Witness ==
    /\ arg.fn = "analyze_project"
    /\ ret # <<>>
    /\ config.legitimacy_weight = 90
    /\ Cardinality({k \in legitimacy_indicators :
                       Contains(Content(arg.project_data), k)}) = 7
    /\ ret[1].analysis.legitimacy_score = 100
    /\ ret[1].analysis.trending_score = 100
    /\ ret[1].analysis.flags = <<>>
    /\ ret[1].composite_score = 100000

C16_FirstMatchWins ==
    (arg.fn = "generate_recommendation" /\ ret # <<>>) =>
        LET a == arg.analysis
            avoid == a.risk_level = "high" \/ Len(a.flags) >= 3
            research == /\ a.legitimacy_score >= 70
                        /\ a.sentiment_score >= 50
                        /\ a.trending_score >= 60
            monitor == /\ a.legitimacy_score >= 50
                       /\ a.risk_level = "low"
                       /\ a.sentiment_score >= 30
            watch == a.legitimacy_score >= 40 /\ a.risk_level # "high"
        IN /\ ret[1] = "avoid" <=> avoid
           /\ ret[1] = "research" <=> (~avoid /\ research)
           /\ ret[1] = "monitor" <=> (~avoid /\ ~research /\ monitor)
           /\ ret[1] = "watch" <=> (~avoid /\ ~research /\ ~monitor /\ watch)
           /\ ret[1] = "hold" <=> (~avoid /\ ~research /\ ~monitor /\ ~watch)

\* a low-risk analysis that meets the 'research', 'monitor' and 'watch'
\* rules and carries three flags got 'avoid'
C16_Witness ==
    /\ arg.fn = "generate_recommendation"
    /\ arg.analysis.risk_level = "low"
    /\ arg.analysis.legitimacy_score = 70
    /\ arg.analysis.sentiment_score = 50
    /\ arg.analysis.trending_score = 60
    /\ Len(arg.analysis.flags) = 3
    /\ ret = <<"avoid">>

WithoutLengthBonus ==
    analyze_legitimacy(arg.project_data,
                       [config EXCEPT !.min_description_length = 1000])

\* C18: in analyze_legitimacy a description whose length equals
\* min_description_length exactly does not receive the +0.1 length bonus,
\* and a description of length min_description_length + 1 does, for every
\* configured min_description_length (the bonus is seen in the score unless
\* the clamp at 1.0 hides it).
C18_LengthBonusAboveMinimum ==
    (arg.fn = "analyze_project" /\ ~Raises(1, arg.project_data)) =>
        \A k \in 1..Len(ret) :
            LET length == TextLen(arg.project_data.description)
                score == ret[k].analysis.legitimacy_score
            IN /\ length = config.min_description_length =>
                      score = WithoutLengthBonus
               /\ length = config.min_description_length + 1 =>
                      score = Min(100, WithoutLengthBonus + 10)

\* with min_description_length 50 a description of 51 characters was scored
\* 0.6: the base score and the length bonus
C18_Witness ==
    /\ arg.fn = "analyze_project"
    /\ config.min_description_length = 50
    /\ TextLen(arg.project_data.description) = 51
    /\ ret # <<>>
    /\ WithoutLengthBonus = 50
    /\ ret[1].analysis.legitimacy_score = 60

(***************************************************************************)
(* The scam record under specification Spec.                               *)
(***************************************************************************)

\* {name 'SafeMoonX9999', description 'guaranteed profit, no risk',
\*  source 'unknown'} and nothing else set
SafeMoonX9999 ==
    Project(<<"Safe", "Moon", "X", "9999">>,
            <<"guaranteed profit", ", ", "no risk">>, BareProfile, {})

\* C19: for the record {name 'SafeMoonX9999', description 'guaranteed
\* profit, no risk', source 'unknown'} and nothing else set, analyze_project
\* returns flags that include 'suspicious_keywords' and 'potential_clone',
\* risk_level 'high', and recommendation 'avoid'.
C19_ScamRecordAvoided ==
    (phase = "returned" /\ project_data = SafeMoonX9999) =>
        /\ {"suspicious_keywords", "potential_clone"} \subseteq Range(analysis.flags)
        /\ analysis.risk_level = "high"
        /\ analysis.recommendation = "avoid"

\* analyze_project returned for the record, with its five flags
C19_Witness ==
    /\ phase = "returned"
    /\ project_data = SafeMoonX9999
    /\ risk_points(project_data) = 9
    /\ analysis.flags = <<"suspicious_keywords", "anonymous_team",
                          "minimal_information", "potential_clone",
                          "no_web_presence">>
    /\ analysis.recommendation = "avoid"

(***************************************************************************)
(* Incomplete configurations (specification ConfigSpec).                   *)
(***************************************************************************)

\* C20: a configuration that lacks a required option is rejected when the
\* analyzer is constructed: no scoring pass runs with the incomplete
\* configuration.
C20_IncompleteConfigRejected ==
    (\E k \in RequiredOptions : k \notin DOMAIN config) => ret = <<>>

(***************************************************************************)
(* Claims about the polling loops under a configured monitor               *)
(* (specification ConfiguredLoopSpec).                                     *)
(***************************************************************************)

\* C21: for every source loop and every configured scan_interval, the sleep
\* taken after a failed iteration (error cooldown) is strictly shorter than
\* the sleep taken after a successful iteration of the same loop.
C21_CooldownShorterThanInterval ==
    \A s \in tasks :
        pc[s] = "cooldown" => last_sleep[s] < Interval(s, mconfig)

(***************************************************************************)
(* Flag detection and risk gating (specification Spec).                    *)
(***************************************************************************)

\* C22: flag detection runs in every scoring pass regardless of the
\* sub-analyzers' outcomes: the flags returned by analyze_project equal
\* detect_suspicious_patterns(record) whether all, some or none of the six
\* sub-analyzers failed.
C22_FlagsAreDetectedFlags ==
    phase = "returned" =>
        analysis.flags = detect_suspicious_patterns(project_data)

(***************************************************************************)
(* Risk gating of a failed risk sub-analyzer (specification FunctionSpec). *)
(***************************************************************************)

\* the composite score (x100000) of analysis a when its risk level applies
\* no modifier
UnmodifiedComposite(a) ==
    LET weighted == a.legitimacy_score * config.legitimacy_weight
                    + (IF a.sentiment_score > 0 THEN a.sentiment_score ELSE 0)
                      * config.sentiment_weight
                    + a.trending_score * 20
        value == weighted * 10 - Len(a.flags) * 10000
    IN IF value < 0 THEN 0 ELSE IF value > 100000 THEN 100000 ELSE value

\* C23: a failed Risk sub-analyzer leaves risk_level 'unknown', and
\* 'unknown' is excluded from risk gating: it is never treated as 'high' (it
\* does not by itself cause 'avoid' and does not apply the 0.3 or 0.7
\* composite modifier) and never satisfies the risk == low condition of
\* 'monitor'.
C23_UnknownRiskNotGated ==
    /\ (arg.fn = "analyze_project" /\ Raises(2, arg.project_data)) =>
           \A k \in 1..Len(ret) :
               /\ ret[k].analysis.risk_level = "unknown"
               /\ ret[k].analysis.recommendation \notin {"avoid", "monitor"}
               /\ ret[k].composite_score = UnmodifiedComposite(ret[k].analysis)
    /\ (arg.fn = "generate_recommendation" /\ ret # <<>>
          /\ arg.analysis.risk_level = "unknown") =>
           /\ ret[1] = "avoid" => Len(arg.analysis.flags) >= 3
           /\ ret[1] # "monitor"
    /\ (arg.fn = "calculate_composite_score" /\ ret # <<>>
          /\ arg.analysis.risk_level = "unknown") =>
           ret[1] = UnmodifiedComposite(arg.analysis)

\* the risk sub-analyzer failed on a record whose legitimacy and sentiment
\* meet the 'monitor' rule: the pass returned 'unknown' and 'watch', and the
\* composite score was not reduced
C23_Witness ==
    /\ arg.fn = "analyze_project"
    /\ Raises(2, arg.project_data)
    /\ Len(ret) = 1
    /\ ret[1].analysis.risk_level = "unknown"
    /\ ret[1].analysis.legitimacy_score >= 50
    /\ ret[1].analysis.sentiment_score >= 30
    /\ ret[1].analysis.recommendation = "watch"
    /\ ret[1].composite_score > 0

(***************************************************************************)
(* Shared inputs (specification PipelineSpec).                             *)
(***************************************************************************)

\* C24: neither a scoring pass nor any polling loop mutates its shared
\* input: after analyze_project the project record is unchanged, after any
\* loop iteration the fetched observations are unchanged, and self.config of
\* the analyzer and of the monitor is never written after construction.
C24_SharedInputUnchanged ==
    [][ /\ config' = config
        /\ mconfig' = mconfig
        /\ phase = "gathering" => project_data' = project_data
        /\ \A s \in Sources :
               (pc[s] = "iter" /\ pc'[s] \in {"iter", "sleep", "cooldown"}) =>
                   batch'[s] = batch[s] ]_vars

\* analyze_project has returned for the scam record, which still carries
\* its description, and a loop sleeps after an iteration over two
\* observations it alerted on
C24_Witness ==
    /\ phase = "returned"
    /\ project_data = SafeMoonX9999
    /\ \E s \in Sources :
          /\ pc[s] = "sleep"
          /\ Len(batch[s]) = 2
          /\ calls[s] = <<1, 2>>

\* C25: in the forum loop a relevant post is alerted if and only if its
\* risk_score (0.2 per matched high-risk term) is strictly greater than the
\* configured alert_threshold; its opportunity_score and its confidence
\* never decide whether the alert is emitted, and a post that fails the
\* relevance predicate is never classified or alerted.
C25_ForumAlertIffRiskAboveThreshold ==
    ("forum" \in tasks /\ pc["forum"] \in {"iter", "sleep"}) =>
        \A j \in 1..(idx["forum"] - 1) :
            j \in Range(calls["forum"]) <=>
                /\ is_relevant_post(batch["forum"][j])
                /\ analyze_forum_post(batch["forum"][j]).risk_score
                       > mconfig.alert_threshold

(***************************************************************************)
(* Claims about single loops (specification LoopSpec).                     *)
(***************************************************************************)

\* the listing matches the crypto-term relevance list
MatchesCryptoTerm(l) ==
    \E term \in {"crypto", "bitcoin", "ethereum", "wallet", "private key",
                  "exchange"} :
        \E i \in 1..Len(l.title \o <<" ">> \o l.description) :
            term \in Atoms((l.title \o <<" ">> \o l.description)[i])

\* C26: a dark-marketplace alert is emitted only for a listing that matches
\* the crypto-term relevance list and whose threat level is 'high', where
\* 'high' is assigned exactly to listing types 'stolen_credentials' and
\* 'exchange_hack'; listings of threat level 'medium' or 'low' and
\* non-crypto listings never alert.
C26_DarkAlertOnlyHighCrypto ==
    \A j \in Range(calls["dark"]) :
        /\ MatchesCryptoTerm(batch["dark"][j])
        /\ batch["dark"][j].listing_type \in {"stolen_credentials", "exchange_hack"}

\* the dark loop sleeps after a batch of a stolen-credentials listing about
\* wallets and an exchange-hack listing about passports: one alert, for the
\* first
C26_Witness ==
    /\ pc["dark"] = "sleep"
    /\ Len(batch["dark"]) = 2
    /\ batch["dark"][1].listing_type = "stolen_credentials"
    /\ batch["dark"][2].listing_type = "exchange_hack"
    /\ ~MatchesCryptoTerm(batch["dark"][2])
    /\ calls["dark"] = <<1>>

\* two clock readings of the same second
SameBucket(t1, t2) == t1 \div 1000000 = t2 \div 1000000

\* C27: two alerts built by send_intelligence_alert for the same source and
\* the same title at two instants of the same timestamp bucket carry the same
\* alert_id
C27_AlertIdStable ==
    arg.fn = "send_intelligence_alert" =>
        \A j, k \in 1..Len(ret) :
            (/\ ret[j].source = ret[k].source
             /\ ret[j].data.title = ret[k].data.title
             /\ SameBucket(ret[j].timestamp, ret[k].timestamp)) =>
                ret[j].alert_id = ret[k].alert_id

\* C28: the telegram loop never calls send_intelligence_alert: every message
\* it analyses has a confidence of at most 0.8 and the loop alerts only above
\* 0.8
C28_TelegramNeverAlerts ==
    /\ calls["telegram"] = <<>>
    /\ \A j \in 1..Len(batch["telegram"]) :
           /\ analyze_telegram_message(batch["telegram"][j]).confidence <= 80
           /\ Classify("telegram", batch["telegram"][j], mconfig) # "alert"

C28_Witness ==
    /\ pc["telegram"] = "sleep"
    /\ mconfig.alert_threshold = 40
    /\ Len(batch["telegram"]) = 2
    /\ idx["telegram"] = 3
    /\ contains_crypto_intelligence(batch["telegram"][1])
    /\ analyze_telegram_message(batch["telegram"][1]).confidence = 80
    /\ analyze_telegram_message(batch["telegram"][2]).confidence = 50
    /\ calls["telegram"] = <<>>

\* the priority send_intelligence_alert gives the alert for forum post o
ForumAlertPriority(o) ==
    calculate_priority(analyze_forum_post(o).risk_score,
                       analyze_forum_post(o).confidence)

\* C29: with the default alert_threshold 0.7 every alert of the forum loop
\* has priority MEDIUM or HIGH, never LOW and never CRITICAL
C29_ForumAlertMediumOrHigh ==
    mconfig.alert_threshold = 70 =>
        \A j \in Range(calls["forum"]) :
            /\ analyze_forum_post(batch["forum"][j]).risk_score >= 80
            /\ analyze_forum_post(batch["forum"][j]).confidence <= 50
            /\ ForumAlertPriority(batch["forum"][j]) \in {"MEDIUM", "HIGH"}

C29_Witness ==
    /\ mconfig.alert_threshold = 70
    /\ pc["forum"] = "sleep"
    /\ calls["forum"] = <<1, 2>>
    /\ analyze_forum_post(batch["forum"][1]).risk_score = 80
    /\ analyze_forum_post(batch["forum"][1]).confidence = 0
    /\ ForumAlertPriority(batch["forum"][1]) = "MEDIUM"
    /\ analyze_forum_post(batch["forum"][2]).risk_score = 100
    /\ analyze_forum_post(batch["forum"][2]).confidence = 50
    /\ ForumAlertPriority(batch["forum"][2]) = "HIGH"

\* C30: when processing of the k-th observation of a batch raises, the
\* remaining observations of the batch are not processed in that iteration:
\* the loop goes straight to its cooldown sleep, with no further alert call,
\* and after the sleep it fetches a new batch
C30_RestOfBatchSkipped ==
    [][\A s \in Sources :
          /\ (/\ pc[s] = "iter"
              /\ Classify(s, batch[s][idx[s]], mconfig) = "raise"
              /\ pc'[s] # "cancelled"
              /\ <<pc[s], idx[s]>>' # <<pc[s], idx[s]>>) =>
                 /\ pc'[s] = "cooldown"
                 /\ last_sleep'[s] = Cooldown(s)
                 /\ idx'[s] = idx[s]
                 /\ calls'[s] = calls[s]
          /\ (pc[s] = "cooldown" /\ pc'[s] = "cooldown") =>
                 (calls'[s] = calls[s] /\ idx'[s] = idx[s])
          /\ (pc[s] = "cooldown" /\ pc'[s] \notin {"cooldown", "cancelled"}) =>
                 (pc'[s] = "fetch" /\ batch'[s] = <<>> /\ calls'[s] = <<>>)
      ]_vars

\* the threat loop sleeps its cooldown after the first record of the batch
\* raised; the second record qualifies for an alert and got none
C30_Witness ==
    /\ pc["threat"] = "cooldown"
    /\ last_sleep["threat"] = 120
    /\ Len(batch["threat"]) = 2
    /\ idx["threat"] = 1
    /\ Classify("threat", batch["threat"][1], mconfig) = "raise"
    /\ Classify("threat", batch["threat"][2], mconfig) = "alert"
    /\ calls["threat"] = <<>>

====
